---- MODULE Spec2Model ----
(***************************************************************************)
(* Schematic element generators of schemdraw (elements/xform.py,           *)
(* elements/misc.py, elements/tubes.py) as a state machine.                *)
(*                                                                         *)
(* The state is one element object: its segments list, its anchors and     *)
(* params mappings and its instance attributes, together with the          *)
(* constructor call that made it, the last call made on it, the exception  *)
(* that call raised, if any, and the value it returned.  An object is      *)
(* constructed once; Transformer.tap may then be called on a transformer   *)
(* and draw_heaters on a tube, any number of times.                        *)
(*                                                                         *)
(* Numbers.  The code computes with Python floats.  The model computes     *)
(* with exact fixed-point integers: one unit is 1/20000, so that every     *)
(* decimal literal of the code and every halving the code performs is an   *)
(* exact integer (Fx converts thousandths to units).  Angles use the same  *)
(* representation (thousandths of a degree times 20).  Floating-point      *)
(* rounding is therefore not modelled: equalities are those of the real    *)
(* numbers the formulas denote, with sqrt rounded down to a whole unit.    *)
(***************************************************************************)
EXTENDS Integers, Sequences, FiniteSets, TLC

VARIABLES
    cls,        \* class of the element object, "none" before any construction
    segments,   \* self.segments: ordered list of drawing primitives
    anchors,    \* self.anchors: anchor name -> <<x, y>>
    params,     \* self.params: name -> value (notably "drop")
    attrs,      \* other instance attributes (self._ltop, self.pin_nums, ...)
    ctor,       \* the constructor call that made the object, with its arguments
    call,       \* the last call on the object: the constructor or a tap
    err,        \* exception raised by the last call, NoErr if none
    ret         \* what the last call returned: "self", "None" or "raised"

vars == <<cls, segments, anchors, params, attrs, ctor, call, err, ret>>

----------------------------------------------------------------------------
(* Bounds of the model *)

\* largest number of turns of a winding, and largest tap position
MaxTurns == 2

----------------------------------------------------------------------------
(* Fixed-point arithmetic *)

\* thousandths -> units of 1/20000
Fx(milli) == milli * 20

\* product of two fixed-point numbers
Mul(a, b) == (a * b) \div Fx(1000)

\* math.sqrt of a product of two fixed-point numbers (units squared), rounded down
Sqrt(sq) == CHOOSE n \in 0..Fx(2500) : n * n <= sq /\ (n + 1) * (n + 1) > sq

Max(a, b) == IF a >= b THEN a ELSE b
Min(a, b) == IF a <= b THEN a ELSE b

RECURSIVE SumSeq(_)
\* sum(list)
SumSeq(s) == IF s = <<>> THEN 0 ELSE Head(s) + SumSeq(Tail(s))

\* list[:n] with Python's slice semantics (negative n counts from the end)
Prefix(s, n) ==
    LET k == IF n < 0 THEN Max(Len(s) + n, 0) ELSE Min(n, Len(s))
    IN  SubSeq(s, 1, k)

\* Python's None, and a present optional value
None == <<>>
Some(v) == <<v>>

\* a Python int or str value, tagged, and str() of it
IntV(n) == [int |-> n]
StrV(s) == [str |-> s]
str(x) == IF "int" \in DOMAIN x THEN ToString(x.int) ELSE x.str

\* the empty dict
EmptyMap == [k \in {} |-> 0]

\* dict[key] = value (inserts, or overwrites an existing key)
SetItem(map, key, value) == (key :> value) @@ map

NoErr == [type |-> "none", msg |-> <<>>]

----------------------------------------------------------------------------
(* Drawing primitives (constructors of schemdraw.segments) *)

Segment(path) == [type |-> "Segment", path |-> path, ls |-> "None", arrow |-> "None"]
SegmentLs(path, ls) == [type |-> "Segment", path |-> path, ls |-> ls, arrow |-> "None"]
SegmentArrow(path, arrow) ==
    [type |-> "Segment", path |-> path, ls |-> "None", arrow |-> arrow]
SegmentArc(center, theta1, theta2, width, height) ==
    [type |-> "SegmentArc", center |-> center, theta1 |-> theta1,
     theta2 |-> theta2, width |-> width, height |-> height]
SegmentCircle(center, radius, fill, zorder) ==
    [type |-> "SegmentCircle", center |-> center, radius |-> radius,
     fill |-> fill, zorder |-> zorder]
SegmentText(pos, label) == [type |-> "SegmentText", pos |-> pos, text |-> label]

\* Element.__init__: an element with nothing drawn yet
Element == [segments |-> <<>>, anchors |-> EmptyMap, params |-> EmptyMap]


----------------------------------------------------------------------------
(* Transformer (elements/xform.py) *)

\* ind_w = 0.4
ind_w == Fx(400)

\* The shapes the cycloid helper may produce: how far the curve reaches to
\* either side of the offset (lo, hi) and its rise per loop (h).
CycloidShapes ==
    { [lo |-> Fx(100), hi |-> Fx(300), h |-> Fx(400)],
      [lo |-> Fx(150), hi |-> Fx(250), h |-> Fx(500)] }

\* twoterm.cycloid(loops, ofst, flip, norm=False, vertical=True): a point list
\* that starts at the offset, swings to both sides and ends loops*h above it
cycloid(loops, ofst, flip, shape) ==
    LET l == IF flip THEN shape.hi ELSE shape.lo
        r == IF flip THEN shape.lo ELSE shape.hi
    IN  << ofst,
           <<ofst[1] - l, ofst[2] + shape.h \div 2>>,
           <<ofst[1] + r, ofst[2] + shape.h>>,
           <<ofst[1], ofst[2] + loops * shape.h>> >>

RECURSIVE MinX(_)
\* min([i[0] for i in c])
MinX(c) ==
    IF Len(c) = 1 THEN c[1][1] ELSE Min(c[1][1], MinX(Tail(c)))

\* Transformer.draw_loops: appends the cycloid, returns (tapx, top)
draw_loops(segs, n, ofst, flip, shape) ==
    LET c == cycloid(n, ofst, flip, shape)
    IN  [segments |-> Append(segs, Segment(c)),
         tapx |-> MinX(c),
         top |-> c[Len(c)][2]]

RECURSIVE coil_arcs(_, _, _, _, _, _)
\* the arcs for i = i0 .. n-1 of draw_coils' loop
coil_arcs(i0, n, ofst, radius, theta1, theta2) ==
    IF i0 >= n THEN <<>>
    ELSE <<SegmentArc(<<ofst[1], ofst[2] - (i0 * radius + radius \div 2)>>,
                      theta1, theta2, radius, radius)>>
         \o coil_arcs(i0 + 1, n, ofst, radius, theta1, theta2)

\* Transformer.draw_coils: appends n arcs stacked downwards from ofst
draw_coils(segs, n, ofst, radius, flip) ==
    LET theta1 == IF flip THEN Fx(90000) ELSE Fx(270000)
        theta2 == IF flip THEN Fx(270000) ELSE Fx(90000)
    IN  segs \o coil_arcs(0, n, ofst, radius, theta1, theta2)

RECURSIVE secondary_loops(_, _, _, _, _, _, _)
\* the loop over j of the loop-style secondary: each pass overwrites rtapx, rtop
secondary_loops(acc, j, t2_list, ind_gap, ltop, lbot, shape) ==
    IF j >= Len(t2_list) THEN acc
    ELSE LET d == draw_loops(acc.segments, t2_list[j + 1],
                      <<ind_gap,
                        (ltop - lbot) \div 2
                          - ((SumSeq(Prefix(t2_list, j)) + j) * ind_w) \div 2>>,
                      TRUE, shape)
         IN  secondary_loops(
                 [segments |-> d.segments, rtapx |-> d.tapx, rtop |-> d.top],
                 j + 1, t2_list, ind_gap, ltop, lbot, shape)

RECURSIVE secondary_coils_without_gaps(_, _, _, _, _)
\* secondary_coils leaving no empty turn between windings (mutation)
secondary_coils_without_gaps(segs, j, t2_list, ind_gap, rtop) ==
    IF j >= Len(t2_list) THEN segs
    ELSE secondary_coils_without_gaps(
             draw_coils(segs, t2_list[j + 1],
                 <<ind_gap, rtop - SumSeq(Prefix(t2_list, j)) * ind_w>>,
                 ind_w, TRUE),
             j + 1, t2_list, ind_gap, rtop)

RECURSIVE secondary_coils(_, _, _, _, _)
\* the loop over j of the coil-style secondary
secondary_coils(segs, j, t2_list, ind_gap, rtop) ==
    IF j >= Len(t2_list) THEN segs
    ELSE secondary_coils(
             draw_coils(segs, t2_list[j + 1],
                 <<ind_gap, rtop - (SumSeq(Prefix(t2_list, j)) + j) * ind_w>>,
                 ind_w, TRUE),
             j + 1, t2_list, ind_gap, rtop)

\* the list of turns the constructor works with: [t2] when no list is given
effective_t2_list(t2, t2_list) ==
    IF t2_list = None THEN <<t2>> ELSE t2_list[1]

\* the total height of the secondary in turns, gaps between windings included
effective_t2(t2, t2_list) ==
    IF t2_list = None THEN t2
    ELSE SumSeq(t2_list[1]) + Len(t2_list[1]) - 1

\* ind_gap after the adjustment for loops or core
gap_width(core, loop) ==
    Fx(750) + (IF loop THEN Fx(400) ELSE 0) + (IF core THEN Fx(250) ELSE 0)

\* s_name numbering the windings from 0 (mutation of s_name)
s_name_from_zero(prefix, j) == prefix \o "_" \o ToString(j)

\* the name of the j-th (0-based) indexed secondary anchor, f"s1_{j+1}"
s_name(prefix, j) == prefix \o "_" \o ToString(j + 1)

RECURSIVE secondary_anchors(_, _, _, _, _)
\* the loop over j that names s1_{j+1}, s2_{j+1}
secondary_anchors(anc, j, t2_list, ind_gap, rtop) ==
    IF j >= Len(t2_list) THEN anc
    ELSE LET a1 == SetItem(anc, s_name("s1", j),
                       <<ind_gap, rtop - (SumSeq(Prefix(t2_list, j)) + j) * ind_w>>)
             a2 == SetItem(a1, s_name("s2", j),
                       <<ind_gap,
                         rtop - (SumSeq(Prefix(t2_list, j + 1)) + j) * ind_w>>)
         IN  secondary_anchors(a2, j + 1, t2_list, ind_gap, rtop)

\* the anchors the constructor defines
transformer_anchors(t2_list, ind_gap, ltop, lbot, rtop, rbot) ==
    LET a0 == SetItem(SetItem(EmptyMap, "p1", <<0, ltop>>), "p2", <<0, lbot>>)
    IN  IF Len(t2_list) = 1
        THEN SetItem(SetItem(a0, "s1", <<ind_gap, rtop>>), "s2", <<ind_gap, rbot>>)
        ELSE secondary_anchors(a0, 0, t2_list, ind_gap, rtop)

\* Transformer.__init__ up to the saved attributes (before ltaps/rtaps)
Transformer_init(t1, t2_arg, t2_list_arg, core, loop, shape) ==
    LET lbot == 0
        ltop0 == t1 * ind_w
        t2_list == effective_t2_list(t2_arg, t2_list_arg)
        t2 == effective_t2(t2_arg, t2_list_arg)
        rtop0 == (ltop0 + lbot) \div 2 + (t2 * ind_w) \div 2
        rbot == (ltop0 + lbot) \div 2 - (t2 * ind_w) \div 2
        ind_gap == gap_width(core, loop)
        \* primary
        pl == draw_loops(Element.segments, t1, <<0, 0>>, FALSE, shape)
        ltapx == IF loop THEN pl.tapx ELSE 0
        ltop == IF loop THEN pl.top ELSE ltop0
        seg1 == IF loop THEN pl.segments
                ELSE draw_coils(Element.segments, t1, <<0, ltop>>, ind_w, FALSE)
        \* secondary
        sl == secondary_loops([segments |-> seg1, rtapx |-> ind_gap, rtop |-> rtop0],
                              0, t2_list, ind_gap, ltop, lbot, shape)
        rtapx == IF loop THEN sl.rtapx ELSE ind_gap
        rtop == IF loop THEN sl.rtop ELSE rtop0
        seg2 == IF loop THEN sl.segments
                ELSE secondary_coils(seg1, 0, t2_list, ind_gap, rtop)
        \* core
        top == Max(ltop, rtop)
        bot == Min(lbot, rbot)
        center == ind_gap \div 2
        core_w == ind_gap \div 10
        seg3 == IF core
                THEN seg2 \o << Segment(<< <<center - core_w, top>>,
                                           <<center - core_w, bot>> >>),
                                Segment(<< <<center + core_w, top>>,
                                           <<center + core_w, bot>> >>) >>
                ELSE seg2
    IN  [segments |-> seg3,
         anchors |-> transformer_anchors(t2_list, ind_gap, ltop, lbot, rtop, rbot),
         params |-> Element.params,
         attrs |-> [_ltapx |-> ltapx, _rtapx |-> rtapx, _ltop |-> ltop,
                    _rtop |-> rtop, _ind_w |-> ind_w, _t2_list |-> t2_list]]

\* tap_error with the side left out of the message (mutation of tap_error)
tap_error_without_side(side) ==
    [type |-> "ValueError", msg |-> <<"Undefined tap side ">>]

\* the message of the ValueError of tap, as its parts
tap_error(side) == [type |-> "ValueError", msg |-> <<"Undefined tap side ", side>>]

\* tap_primary counting turns upwards (mutation of tap_primary)
tap_primary_upwards(at, pos) == <<at._ltapx, at._ltop + pos * at._ind_w>>

\* the point of a tap on the primary side
tap_primary(at, pos) == <<at._ltapx, at._ltop - pos * at._ind_w>>

\* tap_secondary forgetting the empty turn between windings (mutation)
tap_secondary_without_gaps(at, pos, winding) ==
    <<at._rtapx,
      at._rtop - (SumSeq(Prefix(at._t2_list, winding)) + pos) * at._ind_w>>

\* the point of a tap on the secondary side
tap_secondary(at, pos, winding) ==
    <<at._rtapx,
      at._rtop - (SumSeq(Prefix(at._t2_list, winding)) + winding + pos) * at._ind_w>>

\* what tap returns
tap_return == "self"

\* tap replacing the whole anchors mapping by the new tap (mutation of tap)
tap_replacing_anchors(anc, at, name, pos, side, winding) ==
    IF side \in {"left", "primary"}
    THEN [anchors |-> SetItem(EmptyMap, name, tap_primary(at, pos)),
          err |-> NoErr, ret |-> tap_return]
    ELSE IF side \in {"right", "secondary"}
    THEN [anchors |-> SetItem(EmptyMap, name, tap_secondary(at, pos, winding)),
          err |-> NoErr, ret |-> tap_return]
    ELSE [anchors |-> anc, err |-> tap_error(side), ret |-> "raised"]

\* Transformer.tap: the anchors after the call, the exception and the result
tap(anc, at, name, pos, side, winding) ==
    IF side \in {"left", "primary"}
    THEN [anchors |-> SetItem(anc, name, tap_primary(at, pos)),
          err |-> NoErr, ret |-> tap_return]
    ELSE IF side \in {"right", "secondary"}
    THEN [anchors |-> SetItem(anc, name, tap_secondary(at, pos, winding)),
          err |-> NoErr, ret |-> tap_return]
    ELSE [anchors |-> anc, err |-> tap_error(side), ret |-> "raised"]

RECURSIVE ltaps_loop(_, _, _)
\* for name, pos in kwargs["ltaps"].items(): self.tap(name, pos, "primary")
\* (a mapping is the sequence of its items <<name, value>> in order)
ltaps_loop(anc, at, items) ==
    IF items = <<>> THEN anc
    ELSE ltaps_loop(tap(anc, at, Head(items)[1], Head(items)[2], "primary", 0).anchors,
                    at, Tail(items))

\* rtap_call reading a pair as (pos, winding) (mutation of rtap_call)
rtap_call_pair_reversed(value) ==
    IF "int" \in DOMAIN value
    THEN [pos |-> value.int, winding |-> 0]
    ELSE [pos |-> value.pair[1], winding |-> value.pair[2]]

\* the tap an rtaps value stands for: an int is a position on winding 0 (the
\* default of tap), anything else is unpacked as (winding, pos)
rtap_call(value) ==
    IF "int" \in DOMAIN value
    THEN [pos |-> value.int, winding |-> 0]
    ELSE [pos |-> value.pair[2], winding |-> value.pair[1]]

RECURSIVE rtaps_loop(_, _, _)
\* for name, pos in kwargs["rtaps"].items(): self.tap(name, pos, "secondary"
\* [, winding])
rtaps_loop(anc, at, items) ==
    IF items = <<>> THEN anc
    ELSE LET c == rtap_call(Head(items)[2])
         IN  rtaps_loop(tap(anc, at, Head(items)[1], c.pos, "secondary",
                            c.winding).anchors,
                        at, Tail(items))

\* the end of Transformer.__init__: the taps given as keywords, ltaps first
Transformer_kwargs_taps(anc, at, ltaps, rtaps) ==
    LET a1 == IF ltaps = None THEN anc ELSE ltaps_loop(anc, at, ltaps[1])
    IN  IF rtaps = None THEN a1 ELSE rtaps_loop(a1, at, rtaps[1])

----------------------------------------------------------------------------
(* Speaker and Mic (elements/misc.py) *)

\* twoterm.resheight, the resistor half-height: 0.25
resheight == Fx(250)

\* segments.SegmentPoly(verts, closed=True)
SegmentPoly(verts, closed) ==
    [type |-> "SegmentPoly", verts |-> verts, closed |-> closed]

\* Speaker.__init__
Speaker_init ==
    LET sph == Fx(500)
    IN  [segments |->
             Element.segments \o
             << Segment(<< <<0, 0>>, <<resheight, 0>> >>),
                Segment(<< <<0, -sph>>, <<resheight, -sph>> >>),
                SegmentPoly(<< <<resheight, sph \div 2>>,
                               <<resheight, Mul(-sph, Fx(1500))>>,
                               <<resheight * 2, Mul(-sph, Fx(1500))>>,
                               <<resheight * 2, sph \div 2>> >>, TRUE),
                SegmentPoly(<< <<resheight * 2, sph \div 2>>,
                               <<Mul(resheight, Fx(3500)), Mul(sph, Fx(1250))>>,
                               <<Mul(resheight, Fx(3500)), Mul(-sph, Fx(2250))>>,
                               <<resheight * 2, Mul(-sph, Fx(1500))>> >>,
                            FALSE) >>,
         anchors |-> SetItem(SetItem(Element.anchors, "in1", <<0, 0>>),
                             "in2", <<0, -sph>>),
         params |-> SetItem(Element.params, "drop", <<0, -sph>>),
         attrs |-> EmptyMap,
         err |-> NoErr]

\* Mic.__init__ with in1, in2 at the first points of the leads (mutation of
\* Mic_init)
Mic_init_anchors_at_origin ==
    LET sph == Fx(500)
    IN  [segments |->
             Element.segments \o
             << Segment(<< <<0, 0>>, <<resheight, 0>> >>),
                Segment(<< <<0, -sph>>, <<resheight, -sph>> >>),
                Segment(<< <<-resheight * 2, resheight>>,
                           <<-resheight * 2, -resheight * 3>> >>),
                SegmentArc(<<-resheight * 2, -resheight>>, Fx(270000), Fx(90000),
                           resheight * 4, resheight * 4) >>,
         anchors |-> SetItem(SetItem(Element.anchors, "in1", <<0, 0>>),
                             "in2", <<0, -sph>>),
         params |-> SetItem(Element.params, "drop", <<0, -sph>>),
         attrs |-> EmptyMap,
         err |-> NoErr]

\* Mic.__init__
Mic_init ==
    LET sph == Fx(500)
    IN  [segments |->
             Element.segments \o
             << Segment(<< <<0, 0>>, <<resheight, 0>> >>),
                Segment(<< <<0, -sph>>, <<resheight, -sph>> >>),
                Segment(<< <<-resheight * 2, resheight>>,
                           <<-resheight * 2, -resheight * 3>> >>),
                SegmentArc(<<-resheight * 2, -resheight>>, Fx(270000), Fx(90000),
                           resheight * 4, resheight * 4) >>,
         anchors |-> SetItem(SetItem(Element.anchors, "in1", <<resheight, 0>>),
                             "in2", <<resheight, -sph>>),
         params |-> SetItem(Element.params, "drop", <<0, -sph>>),
         attrs |-> EmptyMap,
         err |-> NoErr]

----------------------------------------------------------------------------
(* AudioJack (elements/misc.py) *)

\* has_ringswitch without the test for the ring contact (mutation)
has_ringswitch_without_ring(ring, ringswitch) == ringswitch

\* the ring switch is drawn only with a ring contact: ring and ringswitch
has_ringswitch(ring, ringswitch) == ring /\ ringswitch

\* audiojack_offsets without the shift of the ring contact (mutation)
audiojack_offsets_ring_kept(ring, ringswitch, switch) ==
    [tipy |-> Fx(1000) + (IF switch THEN Fx(200) ELSE 0),
     ringy |-> Fx(100),
     sleevey |-> Fx(350) + (IF has_ringswitch(ring, ringswitch) THEN Fx(200) ELSE 0)]

\* tipy, ringy and sleevey after the adjustments for the switches
audiojack_offsets(ring, ringswitch, switch) ==
    [tipy |-> Fx(1000) + (IF switch THEN Fx(200) ELSE 0),
     ringy |-> Fx(100) - (IF has_ringswitch(ring, ringswitch) THEN Fx(200) ELSE 0),
     sleevey |-> Fx(350) + (IF has_ringswitch(ring, ringswitch) THEN Fx(200) ELSE 0)]

\* a list holding x when cond holds, the empty list otherwise
When(cond, x) == IF cond THEN <<x>> ELSE <<>>

\* AudioJack.__init__
AudioJack_init(radius, ring, ringswitch, dots, switch, open, extend_sleeve) ==
    LET fill == IF open THEN "bg" ELSE "None"
        length == Fx(2000)
        ringlen == Fx(750)
        tiplen == Fx(550)
        swidth == Fx(200)
        sleeveheight == Fx(1000)
        o == audiojack_offsets(ring, ringswitch, switch)
        tipy == o.tipy
        ringy == o.ringy
        sleevey == o.sleevey
        swdy == Fx(400)
        swlen == Fx(500)
        sanchorx == IF extend_sleeve THEN 0 ELSE -length - swidth
        \* if ring:
        ring_segments ==
            When(dots /\ extend_sleeve,
                 SegmentCircle(<<0, -sleevey>>, radius, fill, 4))
            \o When(dots /\ ~extend_sleeve,
                 SegmentCircle(<<-length - swidth, -sleevey>>, radius, fill, 4))
            \o When(extend_sleeve,
                 Segment(<< <<0, -sleevey>>, <<-length, -sleevey>> >>))
            \o << Segment(<< <<-length, 0>>,
                             <<-length, sleeveheight>>,
                             <<-length - swidth, sleeveheight>>,
                             <<-length - swidth, 0>>,
                             <<-length, 0>> >>) >>
            \o When(dots, SegmentCircle(<<0, ringy>>, radius, fill, 4))
            \o << Segment(<< <<-radius, ringy>>,
                             <<Mul(-length, Fx(750)), ringy>>,
                             <<Mul(-length, ringlen) - 2 * radius,
                               ringy + 2 * radius>>,
                             <<Mul(-length, ringlen) - radius * 4, ringy>> >>) >>
        ring_anchors ==
            SetItem(SetItem(Element.anchors, "sleeve", <<sanchorx, -sleevey>>),
                    "ring", <<0, ringy>>)
        \* else:
        noring_segments ==
            When(dots /\ extend_sleeve, SegmentCircle(<<0, 0>>, radius, fill, 4))
            \o When(extend_sleeve,
                 Segment(<< <<-radius, 0>>, <<-length + swidth, 0>> >>))
            \o << Segment(<< <<-length + swidth, 0>>,
                             <<-length, 0>>,
                             <<-length, sleeveheight>>,
                             <<-length + swidth, sleeveheight>>,
                             <<-length + swidth, 0>> >>) >>
        noring_anchors == SetItem(Element.anchors, "sleeve", <<sanchorx, 0>>)
        \* tip
        tip_segments ==
            When(dots, SegmentCircle(<<0, tipy>>, radius, fill, 4))
            \o << Segment(<< <<-radius, tipy>>,
                             <<Mul(-length, Fx(550)), tipy>>,
                             <<Mul(-length, tiplen) - 2 * radius,
                               tipy - 2 * radius>>,
                             <<Mul(-length, tiplen) - radius * 4, tipy>> >>) >>
        \* if switch:
        switch_segments ==
            When(dots, SegmentCircle(<<0, tipy - swdy>>, radius, fill, 4))
            \o << Segment(<< <<0, tipy - swdy>>, <<-swlen, tipy - swdy>> >>),
                  SegmentArrow(<< <<-swlen, tipy - swdy>>, <<-swlen, tipy>> >>,
                               "->") >>
        \* if ring and ringswitch:
        ringswitch_segments ==
            When(dots, SegmentCircle(<<0, ringy + swdy>>, radius, fill, 4))
            \o << Segment(<< <<0, ringy + swdy>>, <<-swlen, ringy + swdy>> >>),
                  SegmentArrow(<< <<-swlen, ringy + swdy>>, <<-swlen, ringy>> >>,
                               "->") >>
        a1 == IF ring THEN ring_anchors ELSE noring_anchors
        a2 == SetItem(a1, "tip", <<0, tipy>>)
        a3 == IF switch THEN SetItem(a2, "tipswitch", <<0, tipy - swdy>>) ELSE a2
        a4 == IF has_ringswitch(ring, ringswitch)
              THEN SetItem(a3, "ringswitch", <<0, ringy + swdy>>)
              ELSE a3
    IN  [segments |-> Element.segments
                      \o (IF ring THEN ring_segments ELSE noring_segments)
                      \o tip_segments
                      \o (IF switch THEN switch_segments ELSE <<>>)
                      \o (IF has_ringswitch(ring, ringswitch)
                          THEN ringswitch_segments ELSE <<>>),
         anchors |-> a4,
         params |-> Element.params,
         attrs |-> EmptyMap]

----------------------------------------------------------------------------
(* Vacuum tubes (elements/tubes.py) *)

tr_d == Fx(2500)
tr_r == Mul(Fx(500), tr_d)

grid_len == Mul(Fx(500), tr_d)

anode_h == Mul(Fx(500), tr_r)
anode_len == Sqrt(tr_r * tr_r - anode_h * anode_h)

cathode_h == anode_h
cathode_len == Sqrt(tr_r * tr_r - cathode_h * cathode_h)
cathode_gap == Sqrt(tr_r * tr_r - (cathode_len \div 2) * (cathode_len \div 2))
cathode_tail == (cathode_gap - cathode_h) \div 2

half_overhang == Fx(12500)

dual_tr_gap == Mul(Fx(500), tr_r)
dual_tr_grid_offset == Fx(250)

pent_gap == dual_tr_gap

\* the KeyError of a dict lookup with a missing key
KeyError(key) == [type |-> "KeyError", msg |-> <<key>>]

\* VacuumTube.__init__(pin_nums=None, draw_heaters=flag): the subclasses pass
\* their pin_nums to no one, so the base stores None
VacuumTube_init(draw_heaters) ==
    [segments |-> Element.segments,
     anchors |-> Element.anchors,
     params |-> Element.params,
     attrs |-> [pin_nums |-> None, draw_heaters |-> draw_heaters]]

\* the TypeError of calling a value that is no function
not_callable(type) ==
    [type |-> "TypeError", msg |-> <<"'", type, "' object is not callable">>]

\* VacuumTube.draw_heaters(self): the method body
VacuumTube_draw_heaters(segs, anc) ==
    IF "drop" \notin DOMAIN anc
    THEN [segments |-> segs, err |-> KeyError("drop")]
    ELSE LET x_extent == anc["drop"][1]
         IN  [segments |->
                  segs \o << Segment(<< <<x_extent \div 2 - Fx(200), 0>>,
                                        <<x_extent, Fx(200)>> >>),
                             Segment(<< <<x_extent \div 2 + Fx(200), 0>>,
                                        <<x_extent, Fx(200)>> >>) >>,
              err |-> NoErr]

\* the call obj.draw_heaters() (via = "instance": the attribute set by
\* __init__ is found before the method of the class) and the call
\* VacuumTube.draw_heaters(obj) (via = "class": the method itself)
call_draw_heaters(via, segs, anc, at) ==
    IF via = "instance" /\ "draw_heaters" \in DOMAIN at
    THEN [segments |-> segs, err |-> not_callable("bool")]
    ELSE VacuumTube_draw_heaters(segs, anc)

RECURSIVE pin_labels_skipping_empty(_, _, _)
\* pin_labels drawing no label for an empty string (mutation of pin_labels)
pin_labels_skipping_empty(segs, labels, pin_nums) ==
    IF labels = <<>> THEN [segments |-> segs, err |-> NoErr]
    ELSE LET key == Head(labels)[2]
         IN  IF key \notin DOMAIN pin_nums
             THEN [segments |-> segs, err |-> KeyError(key)]
             ELSE pin_labels_skipping_empty(
                      IF str(pin_nums[key]) = "" THEN segs
                      ELSE Append(segs,
                               SegmentText(Head(labels)[1], str(pin_nums[key]))),
                      Tail(labels), pin_nums)

RECURSIVE pin_labels(_, _, _)
\* the statements self.segments.append(SegmentText(pos, str(self.pin_nums[key])))
\* in order, for labels = <<pos, key>>, ...: a missing key raises KeyError and
\* ends the constructor
pin_labels(segs, labels, pin_nums) ==
    IF labels = <<>> THEN [segments |-> segs, err |-> NoErr]
    ELSE LET key == Head(labels)[2]
         IN  IF key \notin DOMAIN pin_nums
             THEN [segments |-> segs, err |-> KeyError(key)]
             ELSE pin_labels(
                      Append(segs,
                          SegmentText(Head(labels)[1], str(pin_nums[key]))),
                      Tail(labels), pin_nums)

\* "if self.pin_nums is not None:" followed by the labels
labelled(e, labels, pin_nums) ==
    LET r == IF pin_nums = None THEN [segments |-> e.segments, err |-> NoErr]
             ELSE pin_labels(e.segments, labels, pin_nums[1])
    IN  [segments |-> r.segments, anchors |-> e.anchors, params |-> e.params,
         attrs |-> e.attrs, err |-> r.err]

\* half_sign = 1 if self.half == "right" else -1
half_sign_of(half) == IF half = Some("right") THEN 1 ELSE -1

\* triode_arc with the overhang subtracted at the end of the right half's arc
\* (mutation of triode_arc)
triode_arc_short_right(half) ==
    IF half = Some("left")
    THEN <<Fx(90000) - half_overhang, Fx(270000) + half_overhang>>
    ELSE IF half = Some("right")
    THEN <<Fx(270000) - half_overhang, Fx(90000) - half_overhang>>
    ELSE <<0, Fx(360000)>>

\* (theta1, theta2) of the envelope
triode_arc(half) ==
    IF half = Some("left")
    THEN <<Fx(90000) - half_overhang, Fx(270000) + half_overhang>>
    ELSE IF half = Some("right")
    THEN <<Fx(270000) - half_overhang, Fx(90000) + half_overhang>>
    ELSE <<0, Fx(360000)>>

\* the pin-number labels of Triode: <<position, key>> in drawing order
triode_labels(half_sign) ==
    << << <<(tr_d - half_sign * grid_len) \div 2 - half_sign * Fx(200), tr_r>>,
          "g" >>,
       << <<tr_r - half_sign * Fx(200), tr_r + anode_h + Fx(300)>>, "a" >>,
       << <<tr_r, tr_r - cathode_h - Fx(300)>>, "k" >> >>

\* the cathode anchor at the end of the tail of length cathode_tail
\* (mutation of triode_k)
triode_k_on_short_tail(half_sign) ==
    <<tr_r - (half_sign * cathode_len) \div 2, tr_r - cathode_h - cathode_tail>>

\* self.anchors["k"]
triode_k(half_sign) ==
    <<tr_r + (half_sign * cathode_len) \div 2, tr_r - cathode_gap>>

\* Triode.__init__
Triode_init(pin_nums, half, draw_heaters) ==
    LET base == VacuumTube_init(draw_heaters)
        half_sign == half_sign_of(half)
        theta == triode_arc(half)
        segs ==
            base.segments \o
            << SegmentArc(<<tr_r, tr_r>>, theta[1], theta[2], tr_d, tr_d),
               \* grid
               SegmentLs(<< <<(tr_d - grid_len) \div 2, tr_r>>,
                            <<(tr_d - grid_len) \div 2 + grid_len, tr_r>> >>,
                         "--"),
               Segment(<< <<tr_r + half_sign * tr_r, tr_r>>,
                          <<(tr_d + half_sign * grid_len) \div 2
                              + half_sign * Fx(100), tr_r>> >>),
               \* anode
               Segment(<< <<tr_r - anode_len \div 2, tr_r + anode_h>>,
                          <<tr_r + anode_len \div 2, tr_r + anode_h>> >>),
               Segment(<< <<tr_r, tr_r + anode_h>>, <<tr_r, tr_d>> >>),
               \* cathode
               Segment(<< <<tr_r - cathode_len \div 2, tr_r - cathode_h>>,
                          <<tr_r + cathode_len \div 2, tr_r - cathode_h>> >>),
               Segment(<< <<tr_r - (half_sign * cathode_len) \div 2,
                            tr_r - cathode_h>>,
                          <<tr_r - (half_sign * cathode_len) \div 2,
                            tr_r - cathode_h - cathode_tail>> >>),
               Segment(<< <<tr_r + (half_sign * cathode_len) \div 2,
                            tr_r - cathode_h>>,
                          <<tr_r + (half_sign * cathode_len) \div 2,
                            tr_r - cathode_gap>> >>) >>
        anc == SetItem(SetItem(SetItem(base.anchors,
                   "g", <<tr_r + half_sign * tr_r, tr_r>>),
                   "k", triode_k(half_sign)),
                   "a", <<tr_r, tr_d>>)
    IN  labelled([segments |-> segs,
                  anchors |-> anc,
                  params |-> SetItem(base.params, "drop", <<tr_d, 0>>),
                  attrs |-> [pin_nums |-> pin_nums, half |-> half,
                             draw_heaters |-> draw_heaters]],
                 triode_labels(half_sign), pin_nums)

\* dual_triode_labels without the two cathode labels (mutation)
dual_triode_labels_without_cathodes ==
    << << <<Fx(300), tr_r + Fx(200)>>, "g1" >>,
       << <<tr_d + dual_tr_gap - Fx(300), tr_r + Fx(200)>>, "g2" >>,
       << <<tr_r - Fx(200), tr_r + anode_h + Fx(300)>>, "a1" >>,
       << <<tr_r + dual_tr_gap + Fx(200), tr_r + anode_h + Fx(300)>>, "a2" >> >>

\* the pin-number labels of DualTriode: <<position, key>> in drawing order
dual_triode_labels ==
    << << <<Fx(300), tr_r + Fx(200)>>, "g1" >>,
       << <<tr_d + dual_tr_gap - Fx(300), tr_r + Fx(200)>>, "g2" >>,
       << <<tr_r - Fx(200), tr_r + anode_h + Fx(300)>>, "a1" >>,
       << <<tr_r + dual_tr_gap + Fx(200), tr_r + anode_h + Fx(300)>>, "a2" >>,
       << <<tr_r - cathode_gap \div 2 + Fx(300), tr_r - cathode_h - Fx(300)>>,
          "k1" >>,
       << <<tr_r + cathode_gap \div 2 + dual_tr_gap - Fx(300),
            tr_r - cathode_h - Fx(300)>>, "k2" >> >>

\* DualTriode.__init__
DualTriode_init(pin_nums, draw_heaters) ==
    LET base == VacuumTube_init(draw_heaters)
        segs ==
            base.segments \o
            << SegmentArc(<<tr_r, tr_r>>, Fx(90000), Fx(270000), tr_d, tr_d),
               Segment(<< <<tr_r, 0>>, <<tr_r + dual_tr_gap, 0>> >>),
               Segment(<< <<tr_r, tr_d>>, <<tr_r + dual_tr_gap, tr_d>> >>),
               SegmentArc(<<tr_r + dual_tr_gap, tr_r>>, Fx(270000), Fx(90000),
                          tr_d, tr_d),
               \* grids
               SegmentLs(<< <<dual_tr_grid_offset + (tr_d - grid_len) \div 2, tr_r>>,
                            <<dual_tr_grid_offset + (tr_d - grid_len) \div 2
                                + Mul(Fx(500), grid_len), tr_r>> >>, "--"),
               SegmentLs(<< <<(tr_d + dual_tr_gap)
                                - (dual_tr_grid_offset + (tr_d - grid_len) \div 2),
                              tr_r>>,
                            <<(tr_d + dual_tr_gap)
                                - (dual_tr_grid_offset + (tr_d - grid_len) \div 2
                                   + Mul(Fx(500), grid_len)),
                              tr_r>> >>, "--"),
               Segment(<< <<tr_d + dual_tr_gap - (grid_len \div 2) + Fx(100)
                              - dual_tr_grid_offset, tr_r>>,
                          <<tr_d + dual_tr_gap, tr_r>> >>),
               Segment(<< <<0, tr_r>>,
                          <<(tr_d - grid_len) \div 2 - Fx(100)
                              + dual_tr_grid_offset, tr_r>> >>),
               \* anodes
               Segment(<< <<tr_r - anode_len \div 2, tr_r + anode_h>>,
                          <<tr_r + anode_len \div 2 + dual_tr_gap,
                            tr_r + anode_h>> >>),
               Segment(<< <<tr_r, tr_r + anode_h>>, <<tr_r, tr_d>> >>),
               Segment(<< <<tr_r + dual_tr_gap, tr_r + anode_h>>,
                          <<tr_r + dual_tr_gap, tr_d>> >>),
               \* cathodes
               Segment(<< <<tr_r - cathode_len \div 2, tr_r - cathode_h>>,
                          <<tr_r + cathode_len \div 2 + dual_tr_gap,
                            tr_r - cathode_h>> >>),
               Segment(<< <<tr_r - cathode_len \div 2, tr_r - cathode_h>>,
                          <<tr_r - cathode_len \div 2, tr_r - cathode_gap>> >>),
               Segment(<< <<tr_r + cathode_len \div 2 + dual_tr_gap,
                            tr_r - cathode_h>>,
                          <<tr_r + cathode_len \div 2 + dual_tr_gap,
                            tr_r - cathode_gap>> >>) >>
        anc == [g1 |-> <<0, tr_r>>,
                g2 |-> <<tr_d + dual_tr_gap, tr_r>>,
                k1 |-> <<tr_r - cathode_len \div 2, tr_r - cathode_gap>>,
                k2 |-> <<tr_r + cathode_len \div 2 + dual_tr_gap,
                         tr_r - cathode_gap>>,
                a1 |-> <<tr_r - anode_len \div 2, tr_d>>,
                a2 |-> <<tr_r + anode_len \div 2 + dual_tr_gap, tr_d>>]
    IN  labelled([segments |-> segs,
                  anchors |-> anc @@ base.anchors,
                  params |-> SetItem(base.params, "drop",
                                     <<tr_d + dual_tr_gap, 0>>),
                  attrs |-> [pin_nums |-> pin_nums,
                             draw_heaters |-> draw_heaters]],
                 dual_triode_labels, pin_nums)

\* the pin-number labels of Pentode: <<position, key>> in drawing order
pentode_labels ==
    << << <<tr_r - grid_len \div 2 - Fx(200), tr_r>>, "g1" >>,
       << <<tr_d - grid_len \div 2 + Fx(200), tr_r + pent_gap \div 2>>, "g2" >>,
       << <<tr_r - grid_len \div 2 - Fx(200), tr_r + pent_gap>>, "g3" >>,
       << <<tr_r + Fx(200), tr_r + pent_gap + anode_h + Fx(200)>>, "a" >>,
       << <<tr_r, tr_r - cathode_h - Fx(300)>>, "k" >> >>

\* Pentode.__init__
Pentode_init(pin_nums, draw_heaters) ==
    LET base == VacuumTube_init(draw_heaters)
        segs ==
            base.segments \o
            << SegmentArc(<<tr_r, tr_r>>, Fx(180000), 0, tr_d, tr_d),
               Segment(<< <<0, tr_r>>, <<0, tr_r + pent_gap>> >>),
               Segment(<< <<tr_d, tr_r>>, <<tr_d, tr_r + pent_gap>> >>),
               SegmentArc(<<tr_r, tr_r + pent_gap>>, 0, Fx(180000), tr_d, tr_d),
               \* grid
               SegmentLs(<< <<(tr_d - grid_len) \div 2, tr_r>>,
                            <<(tr_d + grid_len) \div 2, tr_r>> >>, "--"),
               Segment(<< <<tr_d, tr_r>>,
                          <<(tr_d + grid_len) \div 2 + Fx(100), tr_r>> >>),
               \* screen grid
               SegmentLs(<< <<(tr_d - grid_len) \div 2, tr_r + pent_gap \div 2>>,
                            <<(tr_d + grid_len) \div 2, tr_r + pent_gap \div 2>> >>,
                         "--"),
               Segment(<< <<0, tr_r + pent_gap \div 2>>,
                          <<grid_len \div 2 - Fx(100), tr_r + pent_gap \div 2>> >>),
               \* suppressor grid
               SegmentLs(<< <<(tr_d - grid_len) \div 2, tr_r + pent_gap>>,
                            <<(tr_d + grid_len) \div 2, tr_r + pent_gap>> >>,
                         "--"),
               Segment(<< <<tr_d, tr_r + pent_gap>>,
                          <<(tr_d + grid_len) \div 2 + Fx(100),
                            tr_r + pent_gap>> >>),
               \* anode
               Segment(<< <<tr_r - anode_len \div 2, tr_r + pent_gap + anode_h>>,
                          <<tr_r + anode_len \div 2,
                            tr_r + pent_gap + anode_h>> >>),
               Segment(<< <<tr_r, tr_r + pent_gap + anode_h>>,
                          <<tr_r, tr_d + pent_gap>> >>),
               \* cathode
               Segment(<< <<tr_r - cathode_len \div 2, tr_r - cathode_h>>,
                          <<tr_r + cathode_len \div 2, tr_r - cathode_h>> >>),
               Segment(<< <<tr_r + cathode_len \div 2, tr_r - cathode_h>>,
                          <<tr_r + cathode_len \div 2,
                            tr_r - cathode_h - cathode_tail>> >>),
               Segment(<< <<tr_r - cathode_len \div 2, tr_r - cathode_h>>,
                          <<tr_r - cathode_len \div 2, tr_r - cathode_gap>> >>) >>
        anc == [g1 |-> <<tr_d, tr_r>>,
                g2 |-> <<0, tr_r + pent_gap \div 2>>,
                g3 |-> <<tr_d, tr_r + pent_gap>>,
                k |-> <<tr_r - cathode_len \div 2, tr_r - cathode_gap>>,
                a |-> <<tr_r, tr_d + pent_gap>>]
    IN  labelled([segments |-> segs,
                  anchors |-> anc @@ base.anchors,
                  params |-> SetItem(base.params, "drop", <<tr_d, 0>>),
                  attrs |-> [pin_nums |-> pin_nums,
                             draw_heaters |-> draw_heaters]],
                 pentode_labels, pin_nums)

\* the UnboundLocalError of reading a local variable no branch assigned
UnboundLocalError(name) == [type |-> "UnboundLocalError", msg |-> <<name>>]

\* Half12AX7_pins with the numbers of the two sides exchanged (mutation)
Half12AX7_pins_exchanged(half) ==
    IF half = "left"
    THEN [pin_nums |-> [g |-> IntV(7), k |-> IntV(8), a |-> IntV(6)], err |-> NoErr]
    ELSE IF half = "right"
    THEN [pin_nums |-> [g |-> IntV(2), k |-> IntV(3), a |-> IntV(1)], err |-> NoErr]
    ELSE [pin_nums |-> EmptyMap, err |-> UnboundLocalError("pin_nums")]

\* the pin_nums Half12AX7 chooses for half; any half but "left" and "right"
\* leaves the local unassigned
Half12AX7_pins(half) ==
    IF half = "left"
    THEN [pin_nums |-> [g |-> IntV(2), k |-> IntV(3), a |-> IntV(1)], err |-> NoErr]
    ELSE IF half = "right"
    THEN [pin_nums |-> [g |-> IntV(7), k |-> IntV(8), a |-> IntV(6)], err |-> NoErr]
    ELSE [pin_nums |-> EmptyMap, err |-> UnboundLocalError("pin_nums")]

\* Half12AX7(half="left", **kwargs), also named HalfECC83: half_arg is None
\* when the caller leaves half out
Half12AX7_half(half_arg) == IF half_arg = None THEN "left" ELSE half_arg[1]

\* the pin numbers of the presets
pins_12AX7 ==
    [g1 |-> IntV(2), k1 |-> IntV(3), a1 |-> IntV(1),
     g2 |-> IntV(7), k2 |-> IntV(8), a2 |-> IntV(6)]
pins_KT66 ==
    [g1 |-> IntV(5), g2 |-> IntV(4), g3 |-> StrV(""), a |-> IntV(3), k |-> IntV(8)]
pins_EL34 ==
    [g1 |-> IntV(5), g2 |-> IntV(4), g3 |-> IntV(1), a |-> IntV(3), k |-> IntV(8)]

----------------------------------------------------------------------------
(* Inputs *)

Turns == 1..MaxTurns

\* the t2_list arguments: lists of zero, one or two turn counts
TurnLists ==
    {<<>>} \cup {<<a>> : a \in Turns} \cup {<<a, b>> : a \in Turns, b \in Turns}

\* (t2, t2_list): either a list (t2 left at its default 4) or t2 alone
SecondaryArgs ==
    {<<4, Some(l)>> : l \in TurnLists} \cup {<<t, None>> : t \in Turns}

\* radius: the default 0.075, and 0.1
Radii == {Fx(75), Fx(100)}

\* a pin_nums mapping lacking one key
Without(map, key) == [k \in DOMAIN map \ {key} |-> map[k]]

\* half: absent, "left" or "right"
Halves == {None, Some("left"), Some("right")}

\* pin_nums of a Triode: absent, the two halves of a 12AX7, and one lacking k
TriodePins ==
    { None,
      Some([g |-> IntV(2), k |-> IntV(3), a |-> IntV(1)]),
      Some([g |-> IntV(7), k |-> IntV(8), a |-> IntV(6)]),
      Some([g |-> IntV(2), a |-> IntV(1)]) }

\* pin_nums of a DualTriode: absent, the 12AX7, and the 12AX7 lacking k2
DualTriodePins == {None, Some(pins_12AX7), Some(Without(pins_12AX7, "k2"))}

\* pin_nums of a Pentode: absent, the KT66, the EL34, and the KT66 lacking g3
PentodePins ==
    {None, Some(pins_KT66), Some(pins_EL34), Some(Without(pins_KT66, "g3"))}

\* half of Half12AX7: left out, "left", "right", and a string that names no half
Half12AX7Args == {None, Some("left"), Some("right"), Some("both")}

\* an rtaps value that is a pair (winding, pos)
PairV(winding, pos) == [pair |-> <<winding, pos>>]

\* (ltaps, rtaps): both left out; ltaps = {"x": 1} alone; rtaps = {"x": 2}
\* alone; ltaps = {"x": 1} with rtaps = {"y": (1, 0), "x": 1}
KeywordTaps ==
    { <<None, None>>,
      <<Some(<< <<"x", 1>> >>), None>>,
      <<None, Some(<< <<"x", IntV(2)>> >>)>>,
      <<Some(<< <<"x", 1>> >>),
        Some(<< <<"y", PairV(1, 0)>>, <<"x", IntV(1)>> >>)>> }

TapNames == {"x"}
TapSides == {"primary", "left", "secondary", "right", "sideways"}
TapPositions == 0..MaxTurns
TapWindings == {0, 1}

----------------------------------------------------------------------------
(* Actions *)

Init ==
    /\ cls = "none"
    /\ segments = <<>>
    /\ anchors = EmptyMap
    /\ params = EmptyMap
    /\ attrs = EmptyMap
    /\ ctor = [op |-> "none"]
    /\ call = [op |-> "none"]
    /\ err = NoErr
    /\ ret = "None"

\* Transformer(t1=, t2=, t2_list=, core=, loop=, ltaps=, rtaps=)
NewTransformer ==
    \E t1 \in Turns, sec \in SecondaryArgs, core \in BOOLEAN, loop \in BOOLEAN,
       shape \in CycloidShapes, taps \in KeywordTaps :
        LET e == Transformer_init(t1, sec[1], sec[2], core, loop, shape)
            ltaps == taps[1]
            rtaps == taps[2]
        IN  /\ cls = "none"
            /\ cls' = "Transformer"
            /\ segments' = e.segments
            /\ anchors' = Transformer_kwargs_taps(e.anchors, e.attrs, ltaps, rtaps)
            /\ params' = e.params
            /\ attrs' = e.attrs
            /\ ctor' = [op |-> "Transformer", t1 |-> t1, t2 |-> sec[1],
                        t2_list |-> sec[2], core |-> core, loop |-> loop]
            /\ call' = [op |-> "init", ltaps |-> ltaps, rtaps |-> rtaps]
            /\ err' = NoErr
            /\ ret' = "self"

\* AudioJack(radius=, ring=, ringswitch=, dots=, switch=, open=, extend_sleeve=)
NewAudioJack ==
    \E radius \in Radii, ring \in BOOLEAN, ringswitch \in BOOLEAN,
       dots \in BOOLEAN, switch \in BOOLEAN, open \in BOOLEAN,
       extend_sleeve \in BOOLEAN :
        LET e == AudioJack_init(radius, ring, ringswitch, dots, switch, open,
                                extend_sleeve)
        IN  /\ cls = "none"
            /\ cls' = "AudioJack"
            /\ segments' = e.segments
            /\ anchors' = e.anchors
            /\ params' = e.params
            /\ attrs' = e.attrs
            /\ ctor' = [op |-> "AudioJack", radius |-> radius, ring |-> ring,
                        ringswitch |-> ringswitch, dots |-> dots,
                        switch |-> switch, open |-> open,
                        extend_sleeve |-> extend_sleeve]
            /\ call' = [op |-> "init"]
            /\ err' = NoErr
            /\ ret' = "self"

\* the state after a constructor that produced e
Constructed(class, e, c) ==
    /\ cls = "none"
    /\ cls' = class
    /\ segments' = e.segments
    /\ anchors' = e.anchors
    /\ params' = e.params
    /\ attrs' = e.attrs
    /\ ctor' = c
    /\ call' = [op |-> "init"]
    /\ err' = e.err
    /\ ret' = IF e.err = NoErr THEN "self" ELSE "raised"

\* Speaker()
NewSpeaker == Constructed("Speaker", Speaker_init, [op |-> "Speaker"])

\* Mic()
NewMic == Constructed("Mic", Mic_init, [op |-> "Mic"])

\* Triode(pin_nums=, half=, draw_heaters=)
NewTriode ==
    \E pin_nums \in TriodePins, half \in Halves, draw_heaters \in BOOLEAN :
        Constructed("Triode", Triode_init(pin_nums, half, draw_heaters),
                    [op |-> "Triode", pin_nums |-> pin_nums, half |-> half,
                     draw_heaters |-> draw_heaters])

\* DualTriode(pin_nums=, draw_heaters=)
NewDualTriode ==
    \E pin_nums \in DualTriodePins, draw_heaters \in BOOLEAN :
        Constructed("DualTriode", DualTriode_init(pin_nums, draw_heaters),
                    [op |-> "DualTriode", pin_nums |-> pin_nums,
                     draw_heaters |-> draw_heaters])

\* Pentode(pin_nums=, draw_heaters=)
NewPentode ==
    \E pin_nums \in PentodePins, draw_heaters \in BOOLEAN :
        Constructed("Pentode", Pentode_init(pin_nums, draw_heaters),
                    [op |-> "Pentode", pin_nums |-> pin_nums,
                     draw_heaters |-> draw_heaters])

\* _12AX7(draw_heaters=), also named ECC83
New_12AX7 ==
    \E draw_heaters \in BOOLEAN :
        Constructed("DualTriode",
                    DualTriode_init(Some(pins_12AX7), draw_heaters),
                    [op |-> "_12AX7", pin_nums |-> Some(pins_12AX7),
                     draw_heaters |-> draw_heaters])

\* Half12AX7(half=, draw_heaters=): the Triode it returns, or no object when
\* the function raises before it calls Triode
New_Half12AX7 ==
    \E half_arg \in Half12AX7Args, draw_heaters \in BOOLEAN :
        LET half == Half12AX7_half(half_arg)
            p == Half12AX7_pins(half)
            c == [op |-> "Half12AX7", arg |-> half_arg,
                  pin_nums |-> Some(p.pin_nums), half |-> Some(half),
                  draw_heaters |-> draw_heaters]
        IN  IF p.err = NoErr
            THEN Constructed("Triode",
                             Triode_init(Some(p.pin_nums), Some(half),
                                         draw_heaters), c)
            ELSE /\ cls = "none"
                 /\ ctor' = c
                 /\ call' = [op |-> "init"]
                 /\ err' = p.err
                 /\ ret' = "raised"
                 /\ UNCHANGED <<cls, segments, anchors, params, attrs>>

\* KT66(draw_heaters=)
NewKT66 ==
    \E draw_heaters \in BOOLEAN :
        Constructed("Pentode", Pentode_init(Some(pins_KT66), draw_heaters),
                    [op |-> "KT66", pin_nums |-> Some(pins_KT66),
                     draw_heaters |-> draw_heaters])

\* EL34(draw_heaters=)
NewEL34 ==
    \E draw_heaters \in BOOLEAN :
        Constructed("Pentode", Pentode_init(Some(pins_EL34), draw_heaters),
                    [op |-> "EL34", pin_nums |-> Some(pins_EL34),
                     draw_heaters |-> draw_heaters])

\* self.tap(name, pos, side, winding) on a constructed transformer
Tap ==
    \E name \in TapNames, pos \in TapPositions, side \in TapSides,
       winding \in TapWindings :
        LET r == tap(anchors, attrs, name, pos, side, winding)
        IN  /\ cls = "Transformer"
            /\ anchors' = r.anchors
            /\ err' = r.err
            /\ ret' = r.ret
            /\ call' = [op |-> "tap", name |-> name, pos |-> pos, side |-> side,
                        winding |-> winding]
            /\ UNCHANGED <<cls, segments, params, attrs, ctor>>

TubeClasses == {"Triode", "DualTriode", "Pentode"}
HeaterCalls == {"instance", "class"}

\* the object exists: its constructor returned
Exists == cls # "none" /\ ~(call.op = "init" /\ err # NoErr)

\* obj.draw_heaters() or VacuumTube.draw_heaters(obj) on a constructed tube
DrawHeaters ==
    \E via \in HeaterCalls :
        LET r == call_draw_heaters(via, segments, anchors, attrs)
        IN  /\ cls \in TubeClasses
            /\ Exists
            /\ segments' = r.segments
            /\ err' = r.err
            /\ ret' = IF r.err = NoErr THEN "None" ELSE "raised"
            /\ call' = [op |-> "draw_heaters", via |-> via]
            /\ UNCHANGED <<cls, anchors, params, attrs, ctor>>

Next ==
    \/ NewSpeaker
    \/ NewMic
    \/ NewAudioJack
    \/ NewTriode
    \/ New_Half12AX7
    \/ NewDualTriode
    \/ New_12AX7
    \/ NewPentode
    \/ NewKT66
    \/ NewEL34
    \/ NewTransformer
    \/ Tap
    \/ DrawHeaters

Spec == Init /\ [][Next]_vars

----------------------------------------------------------------------------
(* Claims about Transformer *)

\* the last call was a tap on one of the given sides
Tapped(sides) == call.op = "tap" /\ call.side \in sides

\* C2: tap with a side outside {"primary", "left", "secondary", "right"} raises
\* a ValueError whose message contains the side, and the failed call leaves
\* anchors, segments and params as they were.
C2_InvalidSideRaises ==
    [][(call'.op = "tap"
        /\ call'.side \notin {"primary", "left", "secondary", "right"})
       => /\ err'.type = "ValueError"
          /\ \E i \in DOMAIN err'.msg : err'.msg[i] = call'.side
          /\ ret' = "raised"
          /\ anchors' = anchors
          /\ segments' = segments
          /\ params' = params]_vars

\* a tap named x with side "sideways" has failed on a transformer that has no
\* anchor x
C2_Witness ==
    /\ cls = "Transformer"
    /\ Tapped({"sideways"})
    /\ call.name = "x"
    /\ err.type = "ValueError"
    /\ "x" \notin DOMAIN anchors

\* C3: on every transformer a tap on side "primary" or "left" sets
\* anchors[name] to (ltapx, ltop - pos*0.4), whatever the winding argument, and
\* returns the transformer; ltop is the y of anchor p1, and a coil-style
\* transformer has ltapx = 0 and ltop = t1*0.4.
C3_PrimaryTap ==
    /\ cls = "Transformer"
       => /\ anchors["p1"] = <<0, attrs._ltop>>
          /\ ~ctor.loop => attrs._ltapx = 0 /\ attrs._ltop = ctor.t1 * Fx(400)
    /\ Tapped({"primary", "left"})
       => /\ anchors[call.name]
               = <<attrs._ltapx, anchors["p1"][2] - call.pos * Fx(400)>>
          /\ err = NoErr
          /\ ret = "self"

\* tap("x", 2, "primary", winding=1) has acted on a coil-style transformer with
\* t1 = 2
C3_Witness ==
    /\ cls = "Transformer"
    /\ ~ctor.loop
    /\ ctor.t1 = 2
    /\ Tapped({"primary"})
    /\ call.pos = 2
    /\ call.winding = 1
    /\ anchors["x"] = <<0, 0>>

\* the constructor, called without ltaps and rtaps, is the last call made
BuiltWithoutTaps ==
    /\ cls = "Transformer"
    /\ call.op = "init"
    /\ call.ltaps = None
    /\ call.rtaps = None

\* the indexed anchor names of n windings
IndexedNames(n) ==
    {<<"s1_1", "s1_2", "s1_3">>[i] : i \in 1..n}
        \cup {<<"s2_1", "s2_2", "s2_3">>[i] : i \in 1..n}

\* C4: as constructed (before any tap), a transformer with a t2_list of n >= 2
\* windings has exactly the anchors p1, p2, s1_i, s2_i (i = 1..n); with a
\* one-element t2_list, or with t2 alone, exactly p1, p2, s1, s2.
C4_SecondaryAnchorNames ==
    BuiltWithoutTaps
    => LET l == ctor.t2_list
       IN  /\ (l # None /\ Len(l[1]) >= 2)
              => DOMAIN anchors = {"p1", "p2"} \cup IndexedNames(Len(l[1]))
           /\ (l = None \/ (l # None /\ Len(l[1]) = 1))
              => DOMAIN anchors = {"p1", "p2", "s1", "s2"}

\* a transformer just built with a two-winding t2_list
C4_Witness ==
    /\ BuiltWithoutTaps
    /\ ctor.t2_list # None
    /\ Len(ctor.t2_list[1]) = 2
    /\ DOMAIN anchors = {"p1", "p2", "s1_1", "s2_1", "s1_2", "s2_2"}

\* the names of the top and bottom anchors of winding w (0-based)
TopName(w) ==
    IF Len(attrs._t2_list) = 1 THEN "s1" ELSE <<"s1_1", "s1_2", "s1_3">>[w + 1]
BottomName(w) ==
    IF Len(attrs._t2_list) = 1 THEN "s2" ELSE <<"s2_1", "s2_2", "s2_3">>[w + 1]

\* C9: on a coil-style transformer a tap on side "secondary" or "right" with
\* 0 <= w < len(t2_list) lies pos*0.4 below the top anchor of winding w, at the
\* x of the secondary anchors (ind_gap); pos = 0 is the top anchor and
\* pos = t2_list[w] the bottom anchor of that winding.
C9_SecondaryTap ==
    (Tapped({"secondary", "right"}) /\ ~ctor.loop
        /\ call.winding < Len(attrs._t2_list))
    => LET w == call.winding
           top == anchors[TopName(w)]
       IN  /\ anchors[call.name] = <<top[1], top[2] - call.pos * Fx(400)>>
           /\ top[1] = gap_width(ctor.core, FALSE)
           /\ call.pos = attrs._t2_list[w + 1]
              => anchors[call.name] = anchors[BottomName(w)]
           /\ err = NoErr

\* tap("x", t2_list[1], "secondary", winding=1) has acted on a coil-style
\* transformer with two windings: x is at the bottom of the second winding
C9_Witness ==
    /\ cls = "Transformer"
    /\ ~ctor.loop
    /\ Len(attrs._t2_list) = 2
    /\ Tapped({"secondary"})
    /\ call.winding = 1
    /\ call.pos = attrs._t2_list[2]
    /\ anchors["x"] = anchors["s2_2"]
    /\ anchors["x"] # anchors["s1_2"]

\* C10 as stated: every successful tap, whatever its name, leaves segments and
\* params alone, keeps every existing anchor where it was and adds one anchor.
C10_TapOnlyAppends ==
    [][(call'.op = "tap" /\ err' = NoErr)
       => /\ segments' = segments
          /\ params' = params
          /\ \A k \in DOMAIN anchors :
                k \in DOMAIN anchors' /\ anchors'[k] = anchors[k]
          /\ Cardinality(DOMAIN anchors') = Cardinality(DOMAIN anchors) + 1]_vars

\* C10 amended: a tap never changes segments or params and changes no anchor
\* but the one it names; a successful tap with a name that is no anchor yet adds
\* that one anchor, and a successful tap with the name of an existing anchor
\* keeps the number of anchors (it replaces that anchor's coordinates).
C10_TapSetsOneAnchor ==
    [][call'.op = "tap"
       => /\ segments' = segments
          /\ params' = params
          /\ \A k \in DOMAIN anchors \ {call'.name} :
                k \in DOMAIN anchors' /\ anchors'[k] = anchors[k]
          /\ err' = NoErr
             => /\ DOMAIN anchors' = DOMAIN anchors \cup {call'.name}
                /\ call'.name \notin DOMAIN anchors
                   => Cardinality(DOMAIN anchors')
                        = Cardinality(DOMAIN anchors) + 1
                /\ call'.name \in DOMAIN anchors
                   => Cardinality(DOMAIN anchors') = Cardinality(DOMAIN anchors)
          /\ err' # NoErr => anchors' = anchors]_vars

\* a second tap named x has acted on a two-winding transformer: x now lies on
\* the secondary, and the six anchors of construction are still there
C10_Witness ==
    /\ cls = "Transformer"
    /\ Tapped({"secondary", "right"})
    /\ DOMAIN anchors = {"p1", "p2", "s1_1", "s2_1", "s1_2", "s2_2", "x"}
    /\ anchors["x"][1] = anchors["s1_1"][1]

----------------------------------------------------------------------------
(* Claims about AudioJack *)

\* C1: the anchor names of an AudioJack are sleeve and tip, ring iff ring,
\* tipswitch iff switch, ringswitch iff ring and ringswitch, and nothing else,
\* whatever dots, open, extend_sleeve (and radius) are.
C1_AudioJackAnchorNames ==
    cls = "AudioJack"
    => DOMAIN anchors
         = {"sleeve", "tip"}
           \cup (IF ctor.ring THEN {"ring"} ELSE {})
           \cup (IF ctor.switch THEN {"tipswitch"} ELSE {})
           \cup (IF ctor.ring /\ ctor.ringswitch THEN {"ringswitch"} ELSE {})

\* an AudioJack built with ringswitch but no ring, without dots and not open:
\* it has the anchors sleeve and tip alone
C1_Witness ==
    /\ cls = "AudioJack"
    /\ ~ctor.ring /\ ctor.ringswitch /\ ~ctor.switch
    /\ ~ctor.dots /\ ~ctor.open /\ ~ctor.extend_sleeve
    /\ DOMAIN anchors = {"sleeve", "tip"}

\* the anchors of the AudioJack built like the current one, but with the given
\* switch and ringswitch options
JackAnchors(switch, ringswitch) ==
    AudioJack_init(ctor.radius, ctor.ring, ringswitch, ctor.dots, switch,
                   ctor.open, ctor.extend_sleeve).anchors

\* what C7 says of switch, and of ringswitch without ring: switch moves tip up
\* by 0.2 (1.0 to 1.2) and moves no other anchor present without it; ringswitch
\* without ring changes no anchor
C7_SwitchPart ==
    /\ ctor.switch
       => LET off == JackAnchors(FALSE, ctor.ringswitch)
          IN  /\ off["tip"] = <<0, Fx(1000)>>
              /\ anchors["tip"] = <<0, Fx(1200)>>
              /\ \A k \in DOMAIN off \ {"tip"} :
                    k \in DOMAIN anchors /\ anchors[k] = off[k]
    /\ (ctor.ringswitch /\ ~ctor.ring)
       => anchors = JackAnchors(ctor.switch, FALSE)

\* C7 as stated: with ring set, ringswitch raises the y of sleeve by 0.2 and
\* lowers the y of ring by 0.2.
C7_RingSwitchRaisesSleeve ==
    cls = "AudioJack"
    => /\ C7_SwitchPart
       /\ (ctor.ringswitch /\ ctor.ring)
          => LET off == JackAnchors(ctor.switch, FALSE)
             IN  /\ anchors["sleeve"] = <<off["sleeve"][1], off["sleeve"][2] + Fx(200)>>
                 /\ anchors["ring"] = <<off["ring"][1], off["ring"][2] - Fx(200)>>

\* C7 amended: with ring set, ringswitch lowers the y of sleeve by 0.2 (-0.35
\* to -0.55) and lowers the y of ring by 0.2 (0.1 to -0.1); the rest as stated.
C7_RingSwitchLowersSleeve ==
    cls = "AudioJack"
    => /\ C7_SwitchPart
       /\ (ctor.ringswitch /\ ctor.ring)
          => LET off == JackAnchors(ctor.switch, FALSE)
             IN  /\ anchors["sleeve"] = <<off["sleeve"][1], off["sleeve"][2] - Fx(200)>>
                 /\ off["sleeve"][2] = -Fx(350)
                 /\ anchors["ring"] = <<off["ring"][1], off["ring"][2] - Fx(200)>>
                 /\ off["ring"][2] = Fx(100)

\* an AudioJack with ring, ringswitch and switch: tip at 1.2, sleeve at -0.55,
\* ring at -0.1
C7_Witness ==
    /\ cls = "AudioJack"
    /\ ctor.ring /\ ctor.ringswitch /\ ctor.switch
    /\ anchors["tip"][2] = Fx(1200)
    /\ anchors["sleeve"][2] = -Fx(550)
    /\ anchors["ring"][2] = -Fx(100)

----------------------------------------------------------------------------
(* Claims about the vacuum tubes *)

\* the constructor of the class is the last call made: the state is the one
\* it produced
JustBuilt(class) == cls = class /\ call.op = "init"

\* the reflection x -> 2*tr_r - x of a point
Reflect(pt) == <<2 * tr_r - pt[1], pt[2]>>

\* the set of points of a path
PointSet(path) == {path[i] : i \in DOMAIN path}

\* an angle brought into [0, 360)
Norm(angle) == angle % Fx(360000)

\* primitive r is the mirror image of primitive l: same kind and style, points
\* reflected, and for an arc (drawn counter-clockwise from theta1 to theta2)
\* the reflected sweep, from 180 - theta2 to 180 - theta1
MirrorOf(r, l) ==
    /\ r.type = l.type
    /\ r.type = "Segment"
       => /\ PointSet(r.path) = {Reflect(q) : q \in PointSet(l.path)}
          /\ r.ls = l.ls
    /\ r.type = "SegmentArc"
       => /\ r.center = Reflect(l.center)
          /\ r.width = l.width /\ r.height = l.height
          /\ Norm(r.theta1) = Norm(Fx(180000) - l.theta2)
          /\ Norm(r.theta2) = Norm(Fx(180000) - l.theta1)
    /\ r.type = "SegmentText"
       => r.pos = Reflect(l.pos) /\ r.text = l.text

\* C5: for the same pin_nums, Triode(half="right") is the mirror image of
\* Triode(half="left") under x -> 2*tr_r - x: the anchors g, k, a, every
\* segment at the same position of the list, the envelope's sweep and every
\* pin label.
C5_TriodeHalvesMirror ==
    (JustBuilt("Triode") /\ ctor.half = Some("right"))
    => LET l == Triode_init(ctor.pin_nums, Some("left"), ctor.draw_heaters)
       IN  /\ DOMAIN anchors = {"g", "k", "a"}
           /\ \A n \in {"g", "k", "a"} : anchors[n] = Reflect(l.anchors[n])
           /\ Len(segments) = Len(l.segments)
           /\ \A i \in DOMAIN segments : MirrorOf(segments[i], l.segments[i])
           /\ err = l.err

\* a right half triode with its three pin labels, its grid anchor on the right
C5_Witness ==
    /\ cls = "Triode"
    /\ ctor.half = Some("right")
    /\ ctor.pin_nums # None
    /\ err = NoErr
    /\ Len(segments) = 11
    /\ anchors["g"] = <<tr_d, tr_r>>

\* the strings of the text labels, in drawing order
LabelTexts ==
    LET IsText(sg) == sg.type = "SegmentText"
        texts == SelectSeq(segments, IsText)
    IN  [i \in DOMAIN texts |-> texts[i].text]

\* the strings of the text labels drawn at the place of the g3 label
G3Texts ==
    {segments[i].text :
        i \in {j \in DOMAIN segments :
                 /\ segments[j].type = "SegmentText"
                 /\ segments[j].pos
                      = <<tr_r - grid_len \div 2 - Fx(200), tr_r + pent_gap>>}}

\* the pin_nums of the constructor call are the KT66's / the KT66's without g3
WithEmptyG3 == JustBuilt("Pentode") /\ ctor.pin_nums = Some(pins_KT66)
WithoutG3 ==
    JustBuilt("Pentode") /\ ctor.pin_nums = Some(Without(pins_KT66, "g3"))

\* with g3 mapped to "", the pentode is built with five labels, the g3 label
\* showing the empty string
C6_EmptyG3Part ==
    WithEmptyG3
    => /\ err = NoErr
       /\ ret = "self"
       /\ G3Texts = {""}
       /\ LabelTexts = <<"5", "4", "", "3", "8">>

\* C6 as stated: with the g3 key omitted the pentode is constructed, with the
\* labels of the keys present and no g3 label.
C6_OmittedG3Constructs ==
    /\ C6_EmptyG3Part
    /\ WithoutG3
       => /\ err = NoErr
          /\ ret = "self"
          /\ G3Texts = {}
          /\ LabelTexts = <<"5", "4", "3", "8">>

\* C6 amended: with the g3 key omitted the construction fails with the
\* KeyError of g3 after the g1 and g2 labels were drawn: no g3 label is drawn
\* and no pentode is returned.
C6_OmittedG3Raises ==
    /\ C6_EmptyG3Part
    /\ WithoutG3
       => /\ err = [type |-> "KeyError", msg |-> <<"g3">>]
          /\ ret = "raised"
          /\ G3Texts = {}
          /\ LabelTexts = <<"5", "4">>

\* the KT66 preset has been built: its g3 label shows the empty string
C6_Witness ==
    /\ cls = "Pentode"
    /\ ctor.op = "KT66"
    /\ G3Texts = {""}
    /\ Len(segments) = 20

\* a pentode whose pin_nums omit g3 has failed to construct
C6_WitnessOmitted ==
    /\ WithoutG3
    /\ err.type = "KeyError"

\* the number of text labels among the segments
NumLabels == Len(LabelTexts)

\* what C8 says of the anchors and of pin_nums = None, and that the labels
\* follow all the shape segments
C8_AnchorsPart ==
    /\ DOMAIN anchors = {"g1", "g2", "k1", "k2", "a1", "a2"}
    /\ ctor.pin_nums = None => err = NoErr /\ NumLabels = 0
    /\ \A i \in DOMAIN segments :
          segments[i].type = "SegmentText" <=> i > Len(segments) - NumLabels

\* C8 as stated: a DualTriode given pin_nums draws 8 pin-number labels.
C8_EightLabels ==
    JustBuilt("DualTriode")
    => /\ C8_AnchorsPart
       /\ (ctor.pin_nums # None /\ err = NoErr) => NumLabels = 8

\* C8 amended: a DualTriode given pin_nums with its six names draws 6
\* pin-number labels (g1, g2, a1, a2, k1, k2), after the 14 shape segments.
C8_SixLabels ==
    JustBuilt("DualTriode")
    => /\ C8_AnchorsPart
       /\ (ctor.pin_nums # None
           /\ DOMAIN ctor.pin_nums[1] = {"g1", "g2", "k1", "k2", "a1", "a2"})
          => /\ err = NoErr
             /\ NumLabels = 6
             /\ Len(segments) = 14 + 6
             /\ LabelTexts
                  = [i \in 1..6 |->
                       str(ctor.pin_nums[1][<<"g1", "g2", "a1", "a2", "k1", "k2">>[i]])]

\* the 12AX7 preset has been built, with the labels 2, 7, 1, 6, 3, 8
C8_Witness ==
    /\ cls = "DualTriode"
    /\ ctor.op = "_12AX7"
    /\ err = NoErr
    /\ LabelTexts = <<"2", "7", "1", "6", "3", "8">>

----------------------------------------------------------------------------
(* Claims about the heater filaments *)

\* a plain line segment between two points
IsLine(seg) == seg.type = "Segment" /\ Len(seg.path) = 2

\* two line segments that meet in one endpoint: a V
IsVPair(s1, s2) ==
    /\ IsLine(s1) /\ IsLine(s2)
    /\ s1 # s2
    /\ PointSet(s1.path) \cap PointSet(s2.path) # {}

\* construction alone draws no heater: the segments are the shape segments
\* and the pin labels, whatever the flag
C11_NoHeaterAtConstruction ==
    (cls \in TubeClasses /\ call.op = "init" /\ err = NoErr) =>
        /\ attrs.draw_heaters = ctor.draw_heaters
        /\ segments =
               (CASE cls = "Triode" ->
                       Triode_init(ctor.pin_nums, ctor.half, FALSE)
                  [] cls = "DualTriode" -> DualTriode_init(ctor.pin_nums, FALSE)
                  [] cls = "Pentode" -> Pentode_init(ctor.pin_nums, FALSE)).segments

\* a call of the heater-drawing operation returns normally, appends exactly
\* two line segments forming a V and leaves anchors and the earlier segments
\* as they were
C11_CallDrawsHeaters ==
    call'.op = "draw_heaters" =>
        /\ err' = NoErr
        /\ Len(segments') = Len(segments) + 2
        /\ SubSeq(segments', 1, Len(segments)) = segments
        /\ IsVPair(segments'[Len(segments') - 1], segments'[Len(segments')])
        /\ anchors' = anchors

\* C11 (as stated): on any tube element, constructed with the draw_heaters
\* flag set to either value, the heater-drawing operation can be invoked
\* after construction and then appends exactly two line segments forming a V,
\* leaving the anchors and all earlier segments unchanged; construction
\* alone draws no heater segment.
C11_HeatersCanBeDrawn ==
    []C11_NoHeaterAtConstruction /\ [][C11_CallDrawsHeaters]_vars

\* obj.draw_heaters() was called on a tube built with draw_heaters=True and
\* raised TypeError, every segment and anchor left as constructed
C11_Witness ==
    /\ cls \in TubeClasses
    /\ ctor.draw_heaters = TRUE
    /\ call = [op |-> "draw_heaters", via |-> "instance"]
    /\ err = not_callable("bool")
    /\ ret = "raised"

\* VacuumTube.draw_heaters(obj) was called and raised KeyError('drop'),
\* although params["drop"] is set
C11_WitnessMethod ==
    /\ cls \in TubeClasses
    /\ call = [op |-> "draw_heaters", via |-> "class"]
    /\ err = KeyError("drop")
    /\ "drop" \in DOMAIN params

----------------------------------------------------------------------------
(* Claims about Speaker and Mic *)

\* the two leads: the first two segments
UpperLead == segments[1]
LowerLead == segments[2]

\* in2 - in1
LeadSpacing == <<anchors["in2"][1] - anchors["in1"][1],
                 anchors["in2"][2] - anchors["in1"][2]>>

\* C12 (as stated): in both Speaker and Mic, in1 is the first point of the
\* upper lead and in2 the first point of the lower lead, in1 = (0, 0) and
\* in2 = (0, -0.5), and params["drop"] = (0, -0.5) = in2 - in1.
C12_SameAnchors ==
    cls \in {"Speaker", "Mic"} =>
        /\ anchors["in1"] = UpperLead.path[1]
        /\ anchors["in2"] = LowerLead.path[1]
        /\ anchors["in1"] = <<0, 0>>
        /\ anchors["in2"] = <<0, -Fx(500)>>
        /\ params["drop"] = <<0, -Fx(500)>>
        /\ params["drop"] = LeadSpacing

\* C12 (amended): in both, the anchors are in1 and in2, both leads run from
\* x = 0 to x = resheight at y = 0 and y = -0.5, and params["drop"] =
\* (0, -0.5) = in2 - in1.  In Speaker in1 and in2 are the first points of the
\* leads, (0, 0) and (0, -0.5); in Mic they are the second points of the
\* leads, (resheight, 0) and (resheight, -0.5).
C12_LeadEnds ==
    cls \in {"Speaker", "Mic"} =>
        LET end == IF cls = "Speaker" THEN 1 ELSE 2
            x == IF cls = "Speaker" THEN 0 ELSE resheight
        IN  /\ DOMAIN anchors = {"in1", "in2"}
            /\ UpperLead = Segment(<< <<0, 0>>, <<resheight, 0>> >>)
            /\ LowerLead = Segment(<< <<0, -Fx(500)>>, <<resheight, -Fx(500)>> >>)
            /\ anchors["in1"] = UpperLead.path[end]
            /\ anchors["in2"] = LowerLead.path[end]
            /\ anchors["in1"] = <<x, 0>>
            /\ anchors["in2"] = <<x, -Fx(500)>>
            /\ params["drop"] = <<0, -Fx(500)>>
            /\ params["drop"] = LeadSpacing

\* a Mic has been constructed: its anchors are off the origin
C12_Witness ==
    /\ cls = "Mic"
    /\ Len(segments) = 4
    /\ anchors["in1"] # <<0, 0>>

----------------------------------------------------------------------------
(* Claims about the anchors of Triode *)

\* the vertical line segments that hang from the cathode plate
CathodeTails ==
    {segments[i] : i \in {j \in DOMAIN segments :
        /\ IsLine(segments[j])
        /\ segments[j].path[1][1] = segments[j].path[2][1]
        /\ segments[j].path[1][2] = tr_r - cathode_h
        /\ segments[j].path[2][2] < tr_r - cathode_h}}

TailLength(seg) == seg.path[1][2] - seg.path[2][2]
TailEnd(seg) == seg.path[2]

\* the anode anchor is at the top centre, whatever the half
C13_AnodePart ==
    (cls = "Triode" /\ Exists) => anchors["a"] = <<tr_r, tr_d>>

\* C13 (as stated): for every half of Triode, a is at (tr_r, tr_d) and k is
\* the lower end of the shorter cathode tail (of length cathode_tail), not of
\* the longer one that reaches down to tr_r - cathode_gap.
C13_KOnShorterTail ==
    /\ C13_AnodePart
    /\ (cls = "Triode" /\ Exists) =>
           /\ \E t \in CathodeTails :
                  TailLength(t) = cathode_tail /\ anchors["k"] = TailEnd(t)
           /\ \A t \in CathodeTails :
                  TailEnd(t)[2] = tr_r - cathode_gap => anchors["k"] # TailEnd(t)

\* C13 (amended): for every half of Triode, a is at (tr_r, tr_d); there are
\* two cathode tails, one of length cathode_tail and a longer one of length
\* cathode_gap - cathode_h that reaches down to tr_r - cathode_gap, and k is
\* the lower end of the longer one, on the side half_sign mirrors to
\* (x = tr_r + half_sign * cathode_len / 2), not of the shorter one.
C13_KOnLongerTail ==
    /\ C13_AnodePart
    /\ (cls = "Triode" /\ Exists) =>
           /\ {TailLength(t) : t \in CathodeTails} =
                  {cathode_tail, cathode_gap - cathode_h}
           /\ cathode_tail < cathode_gap - cathode_h
           /\ \A t \in CathodeTails :
                  anchors["k"] = TailEnd(t) <=>
                      TailLength(t) = cathode_gap - cathode_h
           /\ anchors["k"] =
                  <<tr_r + (half_sign_of(ctor.half) * cathode_len) \div 2,
                    tr_r - cathode_gap>>

\* a right-half Triode has been constructed with its two tails
C13_Witness ==
    /\ cls = "Triode" /\ Exists
    /\ ctor.half = Some("right")
    /\ Cardinality(CathodeTails) = 2
    /\ anchors["k"][1] > tr_r

----------------------------------------------------------------------------
(* Claims about Half12AX7 *)

\* the text drawn at the label position of pin key of a Triode half
LabelAt(half, key) ==
    LET ls == triode_labels(half_sign_of(Some(half)))
        pos == (CHOOSE i \in DOMAIN ls : ls[i][2] = key)
    IN  {segments[j].text : j \in {i \in DOMAIN segments :
            segments[i].type = "SegmentText" /\ segments[i].pos = ls[pos][1]}}

\* the canonical pin numbers of the two sides of a 12AX7
Canonical(half) ==
    IF half = "left" THEN [g |-> 2, k |-> 3, a |-> 1]
    ELSE [g |-> 7, k |-> 8, a |-> 6]

\* C14: Half12AX7(half), half "left" (also when left out) or "right", returns
\* a Triode of that half with the anchors g, k, a and exactly three text
\* labels, which show the canonical pin numbers of that side (left g=2, k=3,
\* a=1; right g=7, k=8, a=6) at the places of g, k and a; its shape segments
\* are those of Triode(half=half), and the whole element is the one
\* Triode(half=half, pin_nums=...) builds from the same mapping.
C14_Half12AX7 ==
    (ctor.op = "Half12AX7" /\ call.op = "init"
        /\ ctor.arg \in {None, Some("left"), Some("right")})
    => LET half == IF ctor.arg = Some("right") THEN "right" ELSE "left"
           nums == Canonical(half)
           plain == Triode_init(None, Some(half), ctor.draw_heaters)
           same == Triode_init(Some([n \in {"g", "k", "a"} |-> IntV(nums[n])]),
                               Some(half), ctor.draw_heaters)
       IN  /\ cls = "Triode" /\ err = NoErr /\ ret = "self"
           /\ attrs.half = Some(half)
           /\ DOMAIN anchors = {"g", "k", "a"}
           /\ anchors = plain.anchors
           /\ NumLabels = 3
           /\ \A n \in {"g", "k", "a"} : LabelAt(half, n) = {ToString(nums[n])}
           /\ Len(segments) = Len(plain.segments) + 3
           /\ SubSeq(segments, 1, Len(plain.segments)) = plain.segments
           /\ segments = same.segments

\* Half12AX7("right") has returned its Triode, labelled 7, 6, 8 (g, a, k)
C14_Witness ==
    /\ ctor.op = "Half12AX7" /\ ctor.arg = Some("right")
    /\ cls = "Triode" /\ call.op = "init"
    /\ LabelTexts = <<"7", "6", "8">>
    /\ anchors["g"] = <<tr_d, tr_r>>

\* Half12AX7() with half left out has returned the left half
C14_WitnessDefault ==
    /\ ctor.op = "Half12AX7" /\ ctor.arg = None
    /\ cls = "Triode"
    /\ LabelTexts = <<"2", "1", "3">>

----------------------------------------------------------------------------
(* Claims about the stacking of the secondary windings *)

\* the vertical extent of an arc: width and height are diameters, as the
\* envelope of a tube (centre (tr_r, tr_r), width tr_d) shows
ArcTop(a) == a.center[2] + a.height \div 2
ArcBottom(a) == a.center[2] - a.height \div 2

\* the arcs of the secondary: those at x = ind_gap, in drawing order
SecondaryArcs ==
    LET OnRight(sg) ==
            sg.type = "SegmentArc" /\ sg.center[1] = gap_width(ctor.core, FALSE)
    IN  SelectSeq(segments, OnRight)

\* the arcs of winding i (1-based): t2_list[i] arcs after those of the
\* windings before it
WindingArcs(i) ==
    LET before == SumSeq(Prefix(attrs._t2_list, i - 1))
    IN  {SecondaryArcs[k] : k \in (before + 1)..(before + attrs._t2_list[i])}

\* a coil-style transformer built from a list of two or more turn counts
Stacked ==
    /\ cls = "Transformer"
    /\ ~ctor.loop
    /\ ctor.t2_list # None
    /\ Len(attrs._t2_list) >= 2

\* C15: in a coil-style transformer with n >= 2 secondary windings, winding
\* i spans from s1_i.y down to s2_i.y, t2_list[i]*ind_w high, with all its
\* arcs inside; one empty turn (ind_w) separates consecutive windings; s1_1
\* is the top and s2_n the bottom of the whole secondary; and the middle of
\* the secondary is the middle of the primary, (p1.y + p2.y)/2.
C15_WindingsStacked ==
    Stacked =>
        LET t == attrs._t2_list
            n == Len(t)
            top(i) == anchors[TopName(i - 1)][2]
            bot(i) == anchors[BottomName(i - 1)][2]
        IN  /\ Len(SecondaryArcs) = SumSeq(t)
            /\ \A i \in 1..n :
                  /\ top(i) - bot(i) = t[i] * ind_w
                  /\ Cardinality(WindingArcs(i)) = t[i]
                  /\ \A a \in WindingArcs(i) :
                        bot(i) <= ArcBottom(a) /\ ArcTop(a) <= top(i)
            /\ \A i \in 1..(n - 1) : bot(i) - top(i + 1) = ind_w
            /\ \A k \in DOMAIN SecondaryArcs :
                  /\ ArcTop(SecondaryArcs[k]) <= top(1)
                  /\ ArcBottom(SecondaryArcs[k]) >= bot(n)
            /\ \E k \in DOMAIN SecondaryArcs : ArcTop(SecondaryArcs[k]) = top(1)
            /\ \E k \in DOMAIN SecondaryArcs : ArcBottom(SecondaryArcs[k]) = bot(n)
            /\ top(1) + bot(n) = anchors["p1"][2] + anchors["p2"][2]

\* a coil-style transformer with the windings [2, 1] has been built
C15_Witness ==
    /\ Stacked
    /\ attrs._t2_list = <<2, 1>>
    /\ Len(SecondaryArcs) = 3
    /\ anchors["s2_1"][2] - anchors["s1_2"][2] = ind_w

----------------------------------------------------------------------------
(* Claims about the taps given as keywords *)

\* the explicit tap calls the claim names for the keyword mappings: one
\* tap(name, pos, "primary") per ltaps item, then one
\* tap(name, pos, "secondary", winding) per rtaps item, an integer value
\* meaning winding 0 and a pair (winding, pos)
ExplicitTaps(ltaps, rtaps) ==
    LET ls == IF ltaps = None THEN <<>> ELSE ltaps[1]
        rs == IF rtaps = None THEN <<>> ELSE rtaps[1]
    IN  [i \in DOMAIN ls |->
            [name |-> ls[i][1], pos |-> ls[i][2], side |-> "primary",
             winding |-> 0]]
        \o
        [i \in DOMAIN rs |->
            IF "int" \in DOMAIN rs[i][2]
            THEN [name |-> rs[i][1], pos |-> rs[i][2].int, side |-> "secondary",
                  winding |-> 0]
            ELSE [name |-> rs[i][1], pos |-> rs[i][2].pair[2],
                  side |-> "secondary", winding |-> rs[i][2].pair[1]]]

RECURSIVE AfterTaps(_, _, _)
\* the anchors after the tap calls cs, made one after the other
AfterTaps(anc, at, cs) ==
    IF cs = <<>> THEN anc
    ELSE AfterTaps(tap(anc, at, Head(cs).name, Head(cs).pos, Head(cs).side,
                       Head(cs).winding).anchors,
                   at, Tail(cs))

\* C16: a Transformer constructed with ltaps and/or rtaps has the anchors of
\* the same Transformer constructed without them and then tapped, in mapping
\* order, with tap(name, pos, "primary") for every ltaps item and then
\* tap(name, pos, "secondary", winding) for every rtaps item (an integer
\* value: winding 0; a pair: (winding, pos)); the segments are the same.
C16_KeywordTaps ==
    (cls = "Transformer" /\ call.op = "init") =>
        \E shape \in CycloidShapes :
            LET plain == Transformer_init(ctor.t1, ctor.t2, ctor.t2_list,
                                          ctor.core, ctor.loop, shape)
            IN  /\ segments = plain.segments
                /\ params = plain.params
                /\ attrs = plain.attrs
                /\ anchors = AfterTaps(plain.anchors, plain.attrs,
                                       ExplicitTaps(call.ltaps, call.rtaps))
                /\ err = NoErr /\ ret = "self"

\* a coil-style transformer with windings [2, 1] built with ltaps {"x": 1}
\* and rtaps {"y": (1, 0), "x": 1}: y is the top of the second winding and
\* x, set last by rtaps, is one turn down the first winding
C16_Witness ==
    /\ cls = "Transformer" /\ call.op = "init"
    /\ ~ctor.loop
    /\ attrs._t2_list = <<2, 1>>
    /\ call.ltaps = Some(<< <<"x", 1>> >>)
    /\ call.rtaps = Some(<< <<"y", PairV(1, 0)>>, <<"x", IntV(1)>> >>)
    /\ anchors["y"] = anchors["s1_2"]
    /\ anchors["x"] = <<attrs._rtapx, attrs._rtop - ind_w>>

----------------------------------------------------------------------------
(* Claims about the anchors of the tubes as connection points *)

\* the solid line segments: the leads and the straight parts of the outline
SolidLines ==
    {segments[i] : i \in {j \in DOMAIN segments :
        IsLine(segments[j]) /\ segments[j].ls = "None"}}

\* pt is an end of a horizontal solid line: the outer end of a grid lead
OnGridLead(pt) ==
    \E sg \in SolidLines : sg.path[1][2] = sg.path[2][2] /\ pt \in PointSet(sg.path)

\* pt is the bottom of a cathode tail
OnCathodeTail(pt) == \E t \in CathodeTails : pt = TailEnd(t)

\* pt is the top of a vertical solid line: the anode lead
OnAnodeLead(pt) ==
    \E sg \in SolidLines :
        /\ sg.path[1][1] = sg.path[2][1]
        /\ sg.path[2][2] > sg.path[1][2]
        /\ pt = sg.path[2]

\* anchor n is where its kind of lead ends
Connected(n) ==
    CASE n \in {"g", "g1", "g2", "g3"} -> OnGridLead(anchors[n])
      [] n \in {"k", "k1", "k2"} -> OnCathodeTail(anchors[n])
      [] n \in {"a", "a1", "a2"} -> OnAnodeLead(anchors[n])

\* C17 (as stated): in every tube element every anchor coincides with an
\* endpoint of one of the element's solid lead segments: a grid anchor with
\* the outer end of a grid lead, a cathode anchor with the bottom of a
\* cathode tail, an anode anchor with the top of a vertical anode lead,
\* a1 and a2 of DualTriode included.
C17_AnchorsOnLeads ==
    (cls \in TubeClasses /\ Exists) =>
        \A n \in DOMAIN anchors : Connected(n)

\* what holds of the code: every anchor but a1 and a2 of DualTriode is where
\* its lead ends; a1 and a2 are at the height of the anode lead tops but
\* anode_len/2 to the side of them, on no segment at all
C17_AllButDualAnodes ==
    (cls \in TubeClasses /\ Exists) =>
        /\ \A n \in DOMAIN anchors \ {"a1", "a2"} : Connected(n)
        /\ cls = "DualTriode" =>
              /\ OnAnodeLead(<<anchors["a1"][1] + anode_len \div 2, anchors["a1"][2]>>)
              /\ OnAnodeLead(<<anchors["a2"][1] - anode_len \div 2, anchors["a2"][2]>>)
              /\ \A sg \in SolidLines :
                    PointSet(sg.path) \cap {anchors["a1"], anchors["a2"]} = {}

\* a DualTriode has been built whose a1 is beside the top of its anode lead
C17_Witness ==
    /\ cls = "DualTriode" /\ Exists
    /\ OnAnodeLead(<<tr_r, tr_d>>)
    /\ anchors["a1"] = <<tr_r - anode_len \div 2, tr_d>>
    /\ ~OnAnodeLead(anchors["a1"])

============================================================================
